---------------------------- MODULE Spec2Model ----------------------------
(***************************************************************************)
(* A model of the pace converter of src/app.py: the four converter         *)
(* functions of PaceConverter, the three validators of InputValidator and  *)
(* the POST handlers of the index route.                                    *)
(*                                                                         *)
(* Python's float is IEEE 754 binary64.  The converters divide, multiply,  *)
(* add and truncate floats, and the claims about them depend on how each   *)
(* operation rounds, so floats are modelled bit for bit: a float is a sign,*)
(* a 53-bit significand and a binary exponent, and every operation rounds  *)
(* its exact result to nearest, ties to even.  TLC's integers are 32 bits  *)
(* wide, so significands are kept as three 24-bit limbs.                   *)
(***************************************************************************)
EXTENDS Integers, Sequences, FiniteSets, TLC

(***************************************************************************)
(* Unsigned integers below 2^72: <<high, middle, low>> limbs in base 2^24. *)
(***************************************************************************)
LimbBase == 2^24

Pow2(n) == 2^n

BigZero == <<0, 0, 0>>

\* 0 <= n < 2^31
BigOfInt(n) == <<0, n \div LimbBase, n % LimbBase>>

BigIsZero(a) == a = BigZero

BigLt(a, b) ==
    \/ a[1] < b[1]
    \/ a[1] = b[1] /\ a[2] < b[2]
    \/ a[1] = b[1] /\ a[2] = b[2] /\ a[3] < b[3]

BigGeq(a, b) == ~BigLt(a, b)

BigAdd(a, b) ==
    LET l == a[3] + b[3]
        m == a[2] + b[2] + (l \div LimbBase)
        h == a[1] + b[1] + (m \div LimbBase)
    IN  <<h, m % LimbBase, l % LimbBase>>

\* a >= b
BigSub(a, b) ==
    LET l == a[3] - b[3]
        m == a[2] - b[2] + (l \div LimbBase)
        h == a[1] - b[1] + (m \div LimbBase)
    IN  <<h, m % LimbBase, l % LimbBase>>

BigShl1(a) ==
    LET l == 2 * a[3]
        m == 2 * a[2] + (l \div LimbBase)
        h == 2 * a[1] + (m \div LimbBase)
    IN  <<h, m % LimbBase, l % LimbBase>>

\* a * 2^k for 0 <= k < 24, the result below 2^72
BigShlBits(a, k) ==
    LET cut == Pow2(24 - k)
        up  == Pow2(k)
    IN  << (a[1] % cut) * up + (a[2] \div cut),
           (a[2] % cut) * up + (a[3] \div cut),
           (a[3] % cut) * up >>

\* floor(a / 2^k) for 0 <= k < 24
BigShrBits(a, k) ==
    LET cut == Pow2(k)
        up  == Pow2(24 - k)
    IN  << a[1] \div cut,
           (a[1] % cut) * up + (a[2] \div cut),
           (a[2] % cut) * up + (a[3] \div cut) >>

\* a * 2^n for 0 <= n < 72, the result below 2^72
BigShl(a, n) ==
    LET s == BigShlBits(a, n % 24)
    IN  CASE n \div 24 = 0 -> s
          [] n \div 24 = 1 -> <<s[2], s[3], 0>>
          [] OTHER         -> <<s[3], 0, 0>>

\* floor(a / 2^n) for n >= 0
BigShr(a, n) ==
    IF n >= 72 THEN BigZero
    ELSE LET s == CASE n \div 24 = 0 -> a
                    [] n \div 24 = 1 -> <<0, a[1], a[2]>>
                    [] OTHER         -> <<0, 0, a[1]>>
         IN  BigShrBits(s, n % 24)

\* a mod 2^n is not zero
BigLowBitsSet(a, n) == a # BigShl(BigShr(a, n), n)

RECURSIVE IntBits(_)
\* the number of bits of n >= 0
IntBits(n) == IF n = 0 THEN 0 ELSE 1 + IntBits(n \div 2)

BigBits(a) ==
    IF a[1] # 0 THEN 48 + IntBits(a[1])
    ELSE IF a[2] # 0 THEN 24 + IntBits(a[2])
    ELSE IntBits(a[3])

BigIsOdd(a) == a[3] % 2 = 1

\* a * k for 0 <= k < 128, the result below 2^72
BigMulDigit(a, k) ==
    LET l == a[3] * k
        m == a[2] * k + (l \div LimbBase)
        h == a[1] * k + (m \div LimbBase)
    IN  <<h, m % LimbBase, l % LimbBase>>

RECURSIVE BigMulInt(_, _)
\* a * k for k >= 0, the result below 2^72
BigMulInt(a, k) ==
    IF k < 128 THEN BigMulDigit(a, k)
    ELSE BigAdd(BigShl(BigMulInt(a, k \div 128), 7), BigMulDigit(a, k % 128))

\* a < 2^31, as an integer
BigToInt(a) == a[2] * LimbBase + a[3]


(***************************************************************************)
(* IEEE 754 binary64 values.  A finite float is sign * man * 2^exp with    *)
(* man = 0 (zero) or 2^52 <= man < 2^53; infinity has its own exponent.    *)
(* Every float the model's inputs reach is normal, so subnormals are not   *)
(* represented.                                                            *)
(***************************************************************************)
InfExp == 2^12

FZero == [sign |-> 1, man |-> BigZero, exp |-> 0]

FInf(sign) == [sign |-> sign, man |-> BigZero, exp |-> InfExp]

FIsInf(f) == f.exp = InfExp

FIsZero(f) == BigIsZero(f.man) /\ ~FIsInf(f)

BigOne == <<0, 0, 1>>

\* sign * man * 2^exp (man any integer below 2^72) rounded to nearest, ties
\* to even; sticky says that the exact value lies strictly above man * 2^exp
\* in magnitude, by less than one unit of man (then man has 55 bits or more)
\* q: the rounded significand, of 53 or 54 bits
FRoundCarry(sign, q, exp) ==
    IF BigBits(q) = 54
    THEN [sign |-> sign, man |-> BigShr(q, 1), exp |-> exp + 1]
    ELSE [sign |-> sign, man |-> q, exp |-> exp]

\* q: the significand cut to 53 bits, rem: the bits cut off, half: half a
\* unit of q
FRoundTie(sign, q, exp, sticky, rem, half) ==
    FRoundCarry(sign,
                IF BigLt(half, rem) \/ (rem = half /\ (sticky \/ BigIsOdd(q)))
                THEN BigAdd(q, BigOne) ELSE q,
                exp)

\* sh > 0: the bits to cut off, q: man without them
FRoundCut(sign, man, exp, sticky, sh, q) ==
    FRoundTie(sign, q, exp + sh, sticky, BigSub(man, BigShl(q, sh)),
              BigShl(BigOne, sh - 1))

\* n: the bits of man
FRoundBits(sign, man, exp, sticky, n) ==
    IF n <= 53
    THEN [sign |-> sign, man |-> BigShl(man, 53 - n), exp |-> exp - (53 - n)]
    ELSE FRoundCut(sign, man, exp, sticky, n - 53, BigShr(man, n - 53))

FRound(sign, man, exp, sticky) ==
    IF BigIsZero(man) THEN FZero ELSE FRoundBits(sign, man, exp, sticky, BigBits(man))

\* r = <<sign, man, exp, sticky>>
FRoundOf(r) == FRound(r[1], r[2], r[3], r[4])

Abs(n) == IF n < 0 THEN -n ELSE n

Sgn(n) == IF n < 0 THEN -1 ELSE 1

\* float(n) for an int n, |n| < 2^31: exact
FOfInt(n) == FRound(Sgn(n), BigOfInt(Abs(n)), 0, FALSE)

FNeg(f) == [f EXCEPT !.sign = -f.sign]

\* a < b, a <= b on floats
FLt(a, b) ==
    IF FIsZero(a) /\ FIsZero(b) THEN FALSE
    ELSE IF FIsZero(a) THEN b.sign = 1
    ELSE IF FIsZero(b) THEN a.sign = -1
    ELSE IF a.sign # b.sign THEN a.sign = -1
    ELSE LET magLt(x, y) == \/ x.exp < y.exp
                            \/ x.exp = y.exp /\ BigLt(x.man, y.man)
         IN  IF a.sign = 1 THEN magLt(a, b) ELSE magLt(b, a)

FEq(a, b) == (FIsZero(a) /\ FIsZero(b)) \/ a = b

FLe(a, b) == FLt(a, b) \/ FEq(a, b)

RECURSIVE LongDiv(_, _, _)
\* n steps of binary long division by d from qr = <<quotient, remainder>>;
\* from <<0, r0>> they end with r0 * 2^n = 2 * d * quotient + remainder and
\* remainder < 2 * d
LongDiv(qr, d, n) ==
    IF n = 0 THEN qr
    ELSE IF BigGeq(qr[2], d)
         THEN LongDiv(<<BigAdd(BigShl1(qr[1]), BigOne), BigShl1(BigSub(qr[2], d))>>,
                      d, n - 1)
         ELSE LongDiv(<<BigShl1(qr[1]), BigShl1(qr[2])>>, d, n - 1)

\* <<floor(a / w), a mod w>> for an int 0 < w < 2^12, by short division
\* over a's six 12-bit digits
BigDivInt(a, w) ==
    LET c5 == a[1] \div 4096
        c4 == (c5 % w) * 4096 + (a[1] % 4096)
        c3 == (c4 % w) * 4096 + (a[2] \div 4096)
        c2 == (c3 % w) * 4096 + (a[2] % 4096)
        c1 == (c2 % w) * 4096 + (a[3] \div 4096)
        c0 == (c1 % w) * 4096 + (a[3] % 4096)
    IN  << << (c5 \div w) * 4096 + (c4 \div w),
              (c3 \div w) * 4096 + (c2 \div w),
              (c1 \div w) * 4096 + (c0 \div w) >>,
           c0 % w >>

\* the significand man has at most 12 significant bits
BigIsShort(man) == man[3] = 0 /\ man[2] % Pow2(17) = 0

\* the quotient of two significands as <<man, e, sticky>>: it is man * 2^e,
\* to 55 bits or more, and sticky says that bits were lost.  qr is what the
\* short division of man * 2^15, or the long division of man, returned.
ShortQuotient(qr) == <<qr[1], -56, qr[2] # 0>>

LongQuotient(qr) == <<qr[1], -55, ~BigIsZero(qr[2])>>

\* man / d, by short division when d is short and by long division otherwise
ManQuotient(man, d) ==
    IF BigIsShort(d)
    THEN ShortQuotient(BigDivInt(BigShl(man, 15), BigToInt(BigShr(d, 41))))
    ELSE LongQuotient(LongDiv(<<BigZero, man>>, d, 56))

FDivOf(sign, exp, q) == FRound(sign, q[1], exp + q[2], q[3])

\* a / b for finite floats, b not zero: the exact quotient, rounded
FDiv(a, b) ==
    IF FIsZero(a) THEN FZero
    ELSE FDivOf(a.sign * b.sign, a.exp - b.exp, ManQuotient(a.man, b.man))

\* f * k for a float f and an int k, |k| < 2^19: Python converts k to a float
\* (exactly) and rounds the exact product
FMulInt(f, k) ==
    IF FIsZero(f) \/ k = 0 THEN FZero
    ELSE FRound(f.sign * Sgn(k), BigMulInt(f.man, Abs(k)), f.exp, FALSE)

\* The exact sum a + b of finite non-zero floats with a.exp >= b.exp, as
\* <<sign, man, exp, sticky>>.
\* x: a's significand at b's exponent
SumNear(a, b, x) ==
    IF a.sign = b.sign THEN <<a.sign, BigAdd(x, b.man), b.exp, FALSE>>
    ELSE IF BigGeq(x, b.man) THEN <<a.sign, BigSub(x, b.man), b.exp, FALSE>>
    ELSE <<b.sign, BigSub(b.man, x), b.exp, FALSE>>

\* b is below a's guard bits and only decides the rounding; x: a's
\* significand with three guard bits, y: b's at that exponent, lost: y is
\* not all of b
SumFar(a, b, x, y, lost) ==
    IF a.sign = b.sign THEN <<a.sign, BigAdd(x, y), a.exp - 3, lost>>
    ELSE IF lost THEN <<a.sign, BigSub(BigSub(x, y), BigOne), a.exp - 3, TRUE>>
    ELSE <<a.sign, BigSub(x, y), a.exp - 3, FALSE>>

\* d = a.exp - b.exp
SumOrdered(a, b, d) ==
    IF d <= 18
    THEN SumNear(a, b, BigShl(a.man, d))
    ELSE SumFar(a, b, BigShl(a.man, 3), BigShr(b.man, d - 3),
                BigLowBitsSet(b.man, d - 3) \/ d - 3 >= 72)

\* a + b for finite non-zero floats with a.exp >= b.exp
FAddOrdered(a, b) == FRoundOf(SumOrdered(a, b, a.exp - b.exp))

\* a + b for finite floats
FAdd(a, b) ==
    IF FIsZero(a) THEN b
    ELSE IF FIsZero(b) THEN a
    ELSE FAddOrdered(IF a.exp >= b.exp THEN a ELSE b, IF a.exp >= b.exp THEN b ELSE a)

FSub(a, b) == FAdd(a, FNeg(b))

\* the integer part of |f| for a finite float, which must be below 2^31
FTruncMag(f) ==
    IF FIsZero(f) \/ -f.exp >= 72 THEN 0
    ELSE BigToInt(BigShr(f.man, -f.exp))

\* int(f) for a finite float f, |f| < 2^31: truncation toward zero
FTrunc(f) == f.sign * FTruncMag(f)

\* f has no fractional part (finite f, |f| < 2^31)
FIsIntegral(f) == FIsZero(f) \/ ~BigLowBitsSet(f.man, -f.exp)

\* math.floor(f) as a float
FFloor(f) ==
    IF FIsIntegral(f) THEN f
    ELSE FOfInt(IF f.sign = 1 THEN FTruncMag(f) ELSE -(FTruncMag(f) + 1))

\* C's fmod(v, w) for a finite float v, |v| < 2^31, and an int w > 0: exact,
\* with the sign of v.
\* the significand of the result at v's exponent: the integer part of |v|
\* reduced modulo w, and the fraction; k = -v.exp
FmodMan(man, k, w) ==
    BigAdd(BigShl(BigOfInt(BigToInt(BigShr(man, k)) % w), k),
           BigSub(man, BigShl(BigShr(man, k), k)))

FmodOf(v, m) ==
    IF BigIsZero(m) THEN [FZero EXCEPT !.sign = v.sign]
    ELSE FRound(v.sign, m, v.exp, FALSE)

FFmod(v, w) ==
    IF FIsZero(v) \/ -v.exp >= 53 THEN v ELSE FmodOf(v, FmodMan(v.man, -v.exp, w))


(***************************************************************************)
(* Python's float operators, as CPython's floatobject.c computes them.     *)
(* The right operand of // and % is always the int 3600 or 60 here.        *)
(***************************************************************************)
\* 0.5
FHalf == FDiv(FOfInt(1), FOfInt(2))

\* v % w for a float v and an int w > 0 (float_rem)
PyModOf(mod, w) ==
    IF ~FIsZero(mod)
    THEN IF mod.sign = -1 THEN FAdd(mod, FOfInt(w)) ELSE mod
    ELSE FZero

PyMod(v, w) == PyModOf(FFmod(v, w), w)

\* the tail of float_floor_div: snap the quotient to the nearest integer below
FloorDivSnap(div, floordiv) ==
    IF FLt(FHalf, FSub(div, floordiv))
    THEN FAdd(floordiv, FOfInt(1))
    ELSE floordiv

FloorDivOf(div) == IF FIsZero(div) THEN FZero ELSE FloorDivSnap(div, FFloor(div))

FloorDivAdjust(mod, div0) ==
    FloorDivOf(IF ~FIsZero(mod) /\ mod.sign = -1 THEN FSub(div0, FOfInt(1)) ELSE div0)

FloorDivOfMod(v, w, mod) == FloorDivAdjust(mod, FDiv(FSub(v, mod), FOfInt(w)))

\* v // w for a float v and an int w > 0 (float_floor_div)
PyFloorDiv(v, w) == FloorDivOfMod(v, w, FFmod(v, w))

(***************************************************************************)
(* What a call does: return a value or raise.                              *)
(***************************************************************************)
Return(v) == [exc |-> "", val |-> v]

Raise(e) == [exc |-> e, val |-> <<>>]

Raised(r) == r.exc # ""

(***************************************************************************)
(* RACE_DISTANCES: the literals 21.0975 and 42.195 denote the floats       *)
(* nearest to them, which dividing two exact floats yields.                *)
(***************************************************************************)
DistanceKeys ==
    {"onek", "threek", "fivek", "tenk", "twentyk", "half", "marathon", "hundredk"}

RACE_DISTANCES ==
    [key \in DistanceKeys |->
        CASE key = "onek"     -> FOfInt(1)
          [] key = "threek"   -> FOfInt(3)
          [] key = "fivek"    -> FOfInt(5)
          [] key = "tenk"     -> FOfInt(10)
          [] key = "twentyk"  -> FOfInt(20)
          [] key = "half"     -> FDiv(FOfInt(210975), FOfInt(10000))
          [] key = "marathon" -> FDiv(FOfInt(42195), FOfInt(1000))
          [] key = "hundredk" -> FOfInt(100)]

(***************************************************************************)
(* PaceConverter                                                           *)
(***************************************************************************)
\* minutes, seconds: ints
SpeedOfTotalMinutes(total_minutes) ==
    IF FIsZero(total_minutes) THEN Raise("ZeroDivisionError")
    ELSE Return(FDiv(FOfInt(60), total_minutes))

minutes_per_km_to_km_per_hour(minutes, seconds) ==
    IF minutes = 0 /\ seconds = 0 THEN Return(FZero)
    ELSE SpeedOfTotalMinutes(FAdd(FOfInt(minutes), FDiv(FOfInt(seconds), FOfInt(60))))

\* pace: a finite float
PaceOfMinutes(total_minutes, minutes) ==
    Return(<<minutes, FTrunc(FMulInt(FSub(total_minutes, FOfInt(minutes)), 60))>>)

PaceOfTotalMinutes(total_minutes) == PaceOfMinutes(total_minutes, FTrunc(total_minutes))

\* a faulty variant: the seconds are taken from all of total_minutes, the
\* whole minutes not subtracted
km_per_hour_to_minutes_per_km_whole(pace) ==
    IF FLe(pace, FZero) THEN Return(<<0, 0>>)
    ELSE Return(<<FTrunc(FDiv(FOfInt(60), pace)),
                  FTrunc(FMulInt(FDiv(FOfInt(60), pace), 60))>>)

km_per_hour_to_minutes_per_km(pace) ==
    IF FLe(pace, FZero) THEN Return(<<0, 0>>)
    ELSE PaceOfTotalMinutes(FDiv(FOfInt(60), pace))

\* total_seconds: a float
FormatHMS(hours, mins, secs) ==
    ToString(hours) \o "h" \o ToString(mins) \o "min" \o ToString(secs) \o "s"

FormatRemaining(hours, remaining_seconds) ==
    FormatHMS(hours, FTrunc(PyFloorDiv(remaining_seconds, 60)),
              FTrunc(PyMod(remaining_seconds, 60)))

\* a faulty variant: the minutes are taken from total_seconds, not from
\* remaining_seconds
format_time_total_minutes(total_seconds) ==
    FormatHMS(FTrunc(PyFloorDiv(total_seconds, 3600)),
              FTrunc(PyFloorDiv(total_seconds, 60)),
              FTrunc(PyMod(total_seconds, 60)))

format_time(total_seconds) ==
    FormatRemaining(FTrunc(PyFloorDiv(total_seconds, 3600)), PyMod(total_seconds, 3600))

\* minutes, seconds: ints; custom_distance: a float
RaceTimesOf(total_seconds_per_km, custom_distance) ==
    [key \in DistanceKeys \cup {"custom"} |->
        IF key = "custom" /\ ~FLt(FZero, custom_distance)
        THEN "0h0min0s"
        ELSE format_time(FMulInt(IF key = "custom" THEN custom_distance
                                 ELSE RACE_DISTANCES[key],
                                 total_seconds_per_km))]

calculate_race_times(minutes, seconds, custom_distance) ==
    IF minutes = 0 /\ seconds = 0
    THEN Return([key \in DistanceKeys |-> "0h0min0s"])
    ELSE Return(RaceTimesOf(minutes * 60 + seconds, custom_distance))

\* race_distance: a string; hours, minutes, seconds: ints
PaceOfSecondsPerKm(seconds_per_km) ==
    Return(<<FTrunc(PyFloorDiv(seconds_per_km, 60)), FTrunc(PyMod(seconds_per_km, 60))>>)

PaceOfRaceSeconds(distance_km, total_race_seconds) ==
    IF total_race_seconds <= 0 \/ FLe(distance_km, FZero)
    THEN Return(<<0, 0>>)
    ELSE PaceOfSecondsPerKm(FDiv(FOfInt(total_race_seconds), distance_km))

\* a faulty variant: an hour counted as 60 seconds
race_time_to_pace_short_hours(race_distance, hours, minutes, seconds) ==
    IF race_distance \notin DistanceKeys THEN Return(<<0, 0>>)
    ELSE PaceOfRaceSeconds(RACE_DISTANCES[race_distance],
                           hours * 60 + minutes * 60 + seconds)

race_time_to_pace(race_distance, hours, minutes, seconds) ==
    IF race_distance \notin DistanceKeys THEN Return(<<0, 0>>)
    ELSE PaceOfRaceSeconds(RACE_DISTANCES[race_distance],
                           hours * 3600 + minutes * 60 + seconds)


(***************************************************************************)
(* Python strings are sequences of characters, each a one-character        *)
(* string; "sup2" stands for the character U+00B2 (superscript two), a     *)
(* digit for str.isdigit that float() does not read.  PyNone is None as a  *)
(* validator's data; NoneStr is None where a string is expected (a field   *)
(* that is absent): no sequence of characters equals it.                   *)
(***************************************************************************)
PyNone == [none |-> TRUE]

NoneStr == <<"None">>

AsciiDigits == {"0", "1", "2", "3", "4", "5", "6", "7", "8", "9"}

PyIsDigit(c) == c \in AsciiDigits \cup {"sup2"}

PyIsSpace(c) == c \in {" ", "\t"}

DigitValue(c) ==
    CASE c = "0" -> 0 [] c = "1" -> 1 [] c = "2" -> 2 [] c = "3" -> 3
      [] c = "4" -> 4 [] c = "5" -> 5 [] c = "6" -> 6 [] c = "7" -> 7
      [] c = "8" -> 8 [] c = "9" -> 9

RECURSIVE LStrip(_)
LStrip(s) == IF s # <<>> /\ PyIsSpace(Head(s)) THEN LStrip(Tail(s)) ELSE s

RECURSIVE RStrip(_)
RStrip(s) ==
    IF s # <<>> /\ PyIsSpace(s[Len(s)]) THEN RStrip(SubSeq(s, 1, Len(s) - 1)) ELSE s

\* s.strip()
PyStrip(s) == RStrip(LStrip(s))

\* s.count(c)
PyCount(s, c) == Cardinality({i \in 1..Len(s) : s[i] = c})

\* str(x or "0"): None and the empty string are falsy
StrOrZero(x) == IF x = NoneStr \/ x = <<>> THEN <<"0">> ELSE x

\* all(c.isdigit() or c in '.-' for c in s)
OnlyNumberChars(s) == \A i \in 1..Len(s) : PyIsDigit(s[i]) \/ s[i] \in {".", "-"}

RECURSIVE DigitsToInt(_)
\* the integer a sequence of ASCII digits denotes (below 2^31)
DigitsToInt(ds) ==
    IF ds = <<>> THEN 0
    ELSE 10 * DigitsToInt(SubSeq(ds, 1, Len(ds) - 1)) + DigitValue(ds[Len(ds)])

RECURSIVE DropLeadingZeros(_)
DropLeadingZeros(ds) ==
    IF ds # <<>> /\ Head(ds) = "0" THEN DropLeadingZeros(Tail(ds)) ELSE ds

\* i, or 0 when no position of s holds a "."
DotIndex(s) ==
    IF \E i \in 1..Len(s) : s[i] = "." THEN CHOOSE i \in 1..Len(s) : s[i] = "." ELSE 0

\* float(s) for a string s of digits, "." and "-" (the only strings the
\* validators pass to it).  It reads an optional leading "-" and then digits
\* with at most one ".", at least one digit in all; anything else is a
\* ValueError.  A decimal of at most 9 digits is the quotient of two exact
\* floats, correctly rounded; an integer part of more than 309 digits
\* overflows to infinity.  Strings of 10 to 309 digits are not modelled.
WithSign(v, sign) ==
    IF FIsZero(v) THEN [FZero EXCEPT !.sign = sign] ELSE [v EXCEPT !.sign = sign]

\* ip, fp: the characters before and after the "."
FloatOfDigits(sign, ip, fp) ==
    IF ~ /\ \A i \in 1..Len(ip) : ip[i] \in AsciiDigits
         /\ \A i \in 1..Len(fp) : fp[i] \in AsciiDigits
         /\ Len(ip) + Len(fp) >= 1
    THEN Raise("ValueError")
    ELSE IF Len(DropLeadingZeros(ip)) > 309 THEN Return(FInf(sign))
    ELSE Return(WithSign(FDiv(FOfInt(DigitsToInt(ip \o fp)), FOfInt(10^Len(fp))), sign))

FloatOfBody(sign, body, dot) ==
    FloatOfDigits(sign,
                  IF dot = 0 THEN body ELSE SubSeq(body, 1, dot - 1),
                  IF dot = 0 THEN <<>> ELSE SubSeq(body, dot + 1, Len(body)))

FloatOfSigned(sign, body) == FloatOfBody(sign, body, DotIndex(body))

\* a faulty variant: signs are skipped wherever they stand
PyFloatSkippingSigns(s) == FloatOfSigned(1, SelectSeq(s, LAMBDA c : c # "-"))

PyFloat(s) ==
    IF s # <<>> /\ Head(s) = "-" THEN FloatOfSigned(-1, Tail(s)) ELSE FloatOfSigned(1, s)

\* a faulty variant: rounding to the nearest integer instead of truncating
PyIntRounded(f) ==
    IF FIsInf(f) THEN Raise("OverflowError")
    ELSE Return(FTrunc(FAdd(f, [FHalf EXCEPT !.sign = f.sign])))

\* int(f) for a float f
PyInt(f) == IF FIsInf(f) THEN Raise("OverflowError") ELSE Return(FTrunc(f))

\* int(r) where r is what float(s) returned or raised
IntOf(r) == IF Raised(r) THEN r ELSE PyInt(r.val)

\* int(float(s))
PyIntOfFloat(s) == IntOf(PyFloat(s))

(***************************************************************************)
(* InputValidator.  A validator returns (is_valid, data, error_msg); the   *)
(* data of an accepted pace or race time is a tuple of ints, written here  *)
(* as a record of its components.                                          *)
(***************************************************************************)
Accept(data) == Return([is_valid |-> TRUE, data |-> data, error_msg |-> ""])

Reject(msg) == Return([is_valid |-> FALSE, data |-> PyNone, error_msg |-> msg])

\* a faulty variant: no except clause
ExceptNothing(r, caught, msg) == r

\* the except clause of a validator: the exceptions it names become a
\* rejection, any other propagates
Except(r, caught, msg) == IF Raised(r) /\ r.exc \in caught THEN Reject(msg) ELSE r

\* the largest minutes of a pace the validator accepts
MaxPaceMinutes == 120

\* the largest speed the validator accepts
MaxSpeed == 50

\* the largest hours of a race time the validator accepts
MaxRaceHours == 12

\* s.count('.') > 1 or s.count('-') > 1
BadPattern(s) == PyCount(s, ".") > 1 \/ PyCount(s, "-") > 1

\* the checks on the values of a pace
PaceLimits(minutes, seconds) ==
    IF minutes < 0 \/ seconds < 0
    THEN Reject("Minutes and seconds must be non-negative")
    ELSE IF seconds >= 60 THEN Reject("Seconds must be less than 60")
    ELSE IF minutes > MaxPaceMinutes
         THEN Reject("Minutes seems unreasonably high (>120)")
    ELSE IF minutes = 0 /\ seconds = 0
         THEN Reject("Pace cannot be zero - please enter a valid pace")
    ELSE Accept([minutes |-> minutes, seconds |-> seconds])

\* m, s: what int(float(minutes_str)) and int(float(seconds_str)) returned or
\* raised; the second is evaluated only when the first returned
PaceOfInts(m, s) ==
    IF Raised(m) THEN m ELSE IF Raised(s) THEN s ELSE PaceLimits(m.val, s.val)

\* the body of the try block, on the stripped strings
PaceChecks(minutes_str, seconds_str) ==
    IF ~OnlyNumberChars(minutes_str) THEN Reject("Minutes must be a valid number")
    ELSE IF ~OnlyNumberChars(seconds_str) THEN Reject("Seconds must be a valid number")
    ELSE IF BadPattern(minutes_str) THEN Reject("Minutes must be a valid number")
    ELSE IF BadPattern(seconds_str) THEN Reject("Seconds must be a valid number")
    ELSE PaceOfInts(PyIntOfFloat(minutes_str), PyIntOfFloat(seconds_str))

validate_pace_input(minutes_str, seconds_str) ==
    Except(PaceChecks(PyStrip(StrOrZero(minutes_str)), PyStrip(StrOrZero(seconds_str))),
           {"ValueError", "TypeError", "OverflowError"},
           "Invalid input: please enter valid numbers")

\* the checks on the value of a speed
SpeedLimits(speed) ==
    IF FLe(speed, FZero) THEN Reject("Speed must be positive")
    ELSE IF FLt(FOfInt(MaxSpeed), speed)
         THEN Reject("Speed seems unreasonably high (>50 km/h)")
    ELSE Accept(speed)

\* f: what float(speed_str) returned or raised
SpeedOfFloat(f) == IF Raised(f) THEN f ELSE SpeedLimits(f.val)

SpeedChecks(speed_str) ==
    IF ~OnlyNumberChars(speed_str) THEN Reject("Speed must be a valid number")
    ELSE IF BadPattern(speed_str) THEN Reject("Speed must be a valid number")
    ELSE SpeedOfFloat(PyFloat(speed_str))

validate_speed_input(speed_str) ==
    Except(SpeedChecks(PyStrip(StrOrZero(speed_str))),
           {"ValueError", "TypeError", "InvalidOperation", "OverflowError"},
           "Invalid input: please enter a valid number")

\* the checks on the values of a race time
RaceTimeLimits(hours, minutes, seconds) ==
    IF hours < 0 \/ minutes < 0 \/ seconds < 0
    THEN Reject("Time values must be non-negative")
    ELSE IF minutes >= 60 \/ seconds >= 60
         THEN Reject("Minutes and seconds must be less than 60")
    ELSE IF hours > MaxRaceHours
         THEN Reject("Race time seems unreasonably long (>12 hours)")
    ELSE IF hours = 0 /\ minutes = 0 /\ seconds = 0
         THEN Reject("Please enter a valid race time")
    ELSE Accept([hours |-> hours, minutes |-> minutes, seconds |-> seconds])

RaceTimeOfInts(h, m, s) ==
    IF Raised(h) THEN h
    ELSE IF Raised(m) THEN m
    ELSE IF Raised(s) THEN s
    ELSE RaceTimeLimits(h.val, m.val, s.val)

RaceTimeChecks(hours_str, minutes_str, seconds_str) ==
    IF ~OnlyNumberChars(hours_str) THEN Reject("Hours must be a valid number")
    ELSE IF ~OnlyNumberChars(minutes_str) THEN Reject("Minutes must be a valid number")
    ELSE IF ~OnlyNumberChars(seconds_str) THEN Reject("Seconds must be a valid number")
    ELSE IF BadPattern(hours_str) THEN Reject("Hours must be a valid number")
    ELSE IF BadPattern(minutes_str) THEN Reject("Minutes must be a valid number")
    ELSE IF BadPattern(seconds_str) THEN Reject("Seconds must be a valid number")
    ELSE RaceTimeOfInts(PyIntOfFloat(hours_str), PyIntOfFloat(minutes_str),
                        PyIntOfFloat(seconds_str))

validate_race_time_input(hours_str, minutes_str, seconds_str) ==
    Except(RaceTimeChecks(PyStrip(StrOrZero(hours_str)), PyStrip(StrOrZero(minutes_str)),
                          PyStrip(StrOrZero(seconds_str))),
           {"ValueError", "TypeError", "OverflowError"},
           "Invalid input: please enter valid numbers")


(***************************************************************************)
(* The index route.  request.form is a function from the names of the      *)
(* fields sent to their raw strings; a response is the template context    *)
(* render_template is given.  Strings that come from the request are       *)
(* sequences of characters; the strings the program makes (messages,       *)
(* finish times, the formatted speed) are TLA+ strings.                    *)
(***************************************************************************)
\* request.form.get(name, default)
FormGet(form, name, default) == IF name \in DOMAIN form THEN form[name] ELSE default

RECURSIVE StrOf(_)
\* the characters of s as one string
StrOf(s) == IF s = <<>> THEN "" ELSE Head(s) \o StrOf(Tail(s))

\* f"{n:02d}" for 0 <= n < 100
TwoDigits(n) == IF n < 10 THEN "0" \o ToString(n) ELSE ToString(n)

\* f"{speed:.2f}" for a finite float 0 <= speed < 2^24: the exact value times
\* 100, rounded to an integer, ties to even
RoundedHundredths(q, rem, half) ==
    BigToInt(q) + (IF BigLt(half, rem) \/ (rem = half /\ BigIsOdd(q)) THEN 1 ELSE 0)

\* x / 2^k rounded to an integer
RoundShift(x, k, q) == RoundedHundredths(q, BigSub(x, BigShl(q, k)), BigShl(BigOne, k - 1))

Fixed2(hundredths) ==
    ToString(hundredths \div 100) \o "." \o TwoDigits(hundredths % 100)

Hundredths(x, k) == RoundShift(x, k, BigShr(x, k))

FormatFixed2(speed) ==
    IF FIsZero(speed) THEN "0.00"
    ELSE Fixed2(Hundredths(BigMulInt(speed.man, 100), -speed.exp))

\* the context of a page that shows no result
ZeroOutputs ==
    [minutes |-> 0, seconds |-> 0, pace |-> 0,
     onek |-> 0, threek |-> 0, fivek |-> 0, tenk |-> 0, twentyk |-> 0,
     half |-> 0, marathon |-> 0, hundredk |-> 0, o |-> 0]

ZeroRace ==
    [race_distance |-> <<>>, race_hours |-> 0, race_minutes |-> 0, race_seconds |-> 0]

\* what a handler did: the converter calls it made, in order, and the
\* response it returned or the exception it raised
Handled(calls, out) == [calls |-> calls, out |-> out]

\* the page of a rejected pace or speed
ErrorPage(error_msg) == Return(ZeroOutputs @@ [error |-> error_msg])

\* the page of a rejected race time or race distance
RaceErrorPage(error_msg) == Return(ZeroOutputs @@ ZeroRace @@ [error |-> error_msg])

\* hours, minutes and seconds of total_race_seconds, a float
RaceTimeOfSeconds(total_race_seconds) ==
    << FTrunc(PyFloorDiv(total_race_seconds, 3600)),
       FTrunc(PyFloorDiv(PyMod(total_race_seconds, 3600), 60)),
       FTrunc(PyMod(total_race_seconds, 60)) >>

\* the race time of a pace over the selected distance, as the pace and speed
\* handlers compute it for display
RaceTimeForDistance(minutes, seconds, selected_distance) ==
    IF selected_distance \in DistanceKeys
    THEN RaceTimeOfSeconds(FMulInt(RACE_DISTANCES[selected_distance],
                                   minutes * 60 + seconds))
    ELSE <<0, 0, 0>>

\* the finish times a result page shows; reading a key the dict lacks is a
\* KeyError
FinishTimes(race_times) ==
    IF \E key \in DistanceKeys \cup {"custom"} : key \notin DOMAIN race_times
    THEN Raise("KeyError")
    ELSE Return([onek |-> race_times["onek"], threek |-> race_times["threek"],
                 fivek |-> race_times["fivek"], tenk |-> race_times["tenk"],
                 twentyk |-> race_times["twentyk"], half |-> race_times["half"],
                 marathon |-> race_times["marathon"],
                 hundredk |-> race_times["hundredk"], o |-> race_times["custom"]])

\* render_template's context: the pace and speed shown, the finish times and
\* the race fields; building it raises what reading the finish times raised
Page(shown, times, race_distance, race) ==
    IF Raised(times) THEN times
    ELSE Return(shown @@ times.val
                @@ [race_distance |-> race_distance, race_hours |-> race[1],
                    race_minutes |-> race[2], race_seconds |-> race[3]])

\* the result page of the pace and speed handlers
ResultPage(form, minutes, seconds, pace, race_times) ==
    Page([minutes |-> minutes, seconds |-> seconds, pace |-> pace],
         FinishTimes(race_times),
         FormGet(form, "race_distance", <<"f", "i", "v", "e", "k">>),
         RaceTimeForDistance(minutes, seconds,
             StrOf(FormGet(form, "race_distance", <<"f", "i", "v", "e", "k">>))))

\* the pace handler after its two converter calls
PaceConverted(form, minutes, seconds, speed, race_times) ==
    IF Raised(speed) THEN Handled(<<"minutes_per_km_to_km_per_hour">>, speed)
    ELSE Handled(<<"minutes_per_km_to_km_per_hour", "calculate_race_times">>,
                 IF Raised(race_times) THEN race_times
                 ELSE ResultPage(form, minutes, seconds, FormatFixed2(speed.val),
                                 race_times.val))

PaceAccepted(form, minutes, seconds) ==
    PaceConverted(form, minutes, seconds,
                  minutes_per_km_to_km_per_hour(minutes, seconds),
                  calculate_race_times(minutes, seconds, FZero))

\* a faulty variant: the speed is computed before is_valid is looked at
PaceValidatedLate(form, v) ==
    IF Raised(v) THEN Handled(<<>>, v)
    ELSE IF ~v.val.is_valid
    THEN Handled(<<"minutes_per_km_to_km_per_hour">>, ErrorPage(v.val.error_msg))
    ELSE PaceAccepted(form, v.val.data.minutes, v.val.data.seconds)

\* v: what validate_pace_input returned or raised
PaceValidated(form, v) ==
    IF Raised(v) THEN Handled(<<>>, v)
    ELSE IF ~v.val.is_valid THEN Handled(<<>>, ErrorPage(v.val.error_msg))
    ELSE PaceAccepted(form, v.val.data.minutes, v.val.data.seconds)

_handle_pace_to_speed_conversion(form) ==
    PaceValidated(form, validate_pace_input(FormGet(form, "minutes", <<"0">>),
                                            FormGet(form, "seconds", <<"0">>)))

\* the speed handler after km_per_hour_to_minutes_per_km returned pace
SpeedConverted(form, pace, race_times) ==
    Handled(<<"km_per_hour_to_minutes_per_km", "calculate_race_times">>,
            IF Raised(race_times) THEN race_times
            ELSE ResultPage(form, pace[1], pace[2], FormGet(form, "kmperhour", <<"0">>),
                            race_times.val))

SpeedAccepted(form, pace) ==
    IF Raised(pace) THEN Handled(<<"km_per_hour_to_minutes_per_km">>, pace)
    ELSE SpeedConverted(form, pace.val,
                        calculate_race_times(pace.val[1], pace.val[2], FZero))

\* v: what validate_speed_input returned or raised
SpeedValidated(form, v) ==
    IF Raised(v) THEN Handled(<<>>, v)
    ELSE IF ~v.val.is_valid THEN Handled(<<>>, ErrorPage(v.val.error_msg))
    ELSE SpeedAccepted(form, km_per_hour_to_minutes_per_km(v.val.data))

_handle_speed_to_pace_conversion(form) ==
    SpeedValidated(form, validate_speed_input(FormGet(form, "kmperhour", <<"0">>)))

\* the race time handler after its three converter calls
RaceConverted(race_distance, time_data, pace, speed, race_times) ==
    IF Raised(speed)
    THEN Handled(<<"race_time_to_pace", "minutes_per_km_to_km_per_hour">>, speed)
    ELSE Handled(<<"race_time_to_pace", "minutes_per_km_to_km_per_hour",
                   "calculate_race_times">>,
                 IF Raised(race_times) THEN race_times
                 ELSE Page([minutes |-> pace[1], seconds |-> pace[2],
                            pace |-> FormatFixed2(speed.val)],
                           FinishTimes(race_times.val), race_distance,
                           <<time_data.hours, time_data.minutes, time_data.seconds>>))

\* pace: what race_time_to_pace returned or raised
RacePace(race_distance, time_data, pace) ==
    IF Raised(pace) THEN Handled(<<"race_time_to_pace">>, pace)
    ELSE RaceConverted(race_distance, time_data, pace.val,
                       minutes_per_km_to_km_per_hour(pace.val[1], pace.val[2]),
                       calculate_race_times(pace.val[1], pace.val[2], FZero))

\* v: what validate_race_time_input returned or raised
RaceValidated(race_distance, v) ==
    IF Raised(v) THEN Handled(<<>>, v)
    ELSE IF ~v.val.is_valid THEN Handled(<<>>, RaceErrorPage(v.val.error_msg))
    ELSE RacePace(race_distance, v.val.data,
                  race_time_to_pace(StrOf(race_distance), v.val.data.hours,
                                    v.val.data.minutes, v.val.data.seconds))

\* race_distance: the stripped field
RaceOfDistance(form, race_distance) ==
    IF race_distance = <<>> \/ StrOf(race_distance) \notin DistanceKeys
    THEN Handled(<<>>, RaceErrorPage("Please select a valid race distance"))
    ELSE RaceValidated(race_distance,
                       validate_race_time_input(FormGet(form, "race_hours", <<"0">>),
                                                FormGet(form, "race_minutes", <<"0">>),
                                                FormGet(form, "race_seconds", <<"0">>)))

_handle_race_time_conversion(form) ==
    RaceOfDistance(form, PyStrip(FormGet(form, "race_distance", <<>>)))

\* the except clause of index: any exception of a handler becomes the error
\* page
Recover(h) ==
    IF Raised(h.out)
    THEN Handled(h.calls, RaceErrorPage("An unexpected error occurred"))
    ELSE h

\* a POST goes to the handler of the first button the form holds
Dispatch(form) ==
    IF "converttokmperh" \in DOMAIN form THEN _handle_pace_to_speed_conversion(form)
    ELSE IF "converttominperkm" \in DOMAIN form THEN _handle_speed_to_pace_conversion(form)
    ELSE IF "convertfromracetime" \in DOMAIN form THEN _handle_race_time_conversion(form)
    ELSE Handled(<<>>, Return(ZeroOutputs @@ ZeroRace))

\* index(): a GET shows the empty page
index(request) ==
    IF request.method = "GET" THEN Handled(<<>>, Return(ZeroOutputs @@ ZeroRace))
    ELSE Recover(Dispatch(request.form))


(***************************************************************************)
(* The state: one call, from its arguments to its result.  The program     *)
(* keeps nothing between calls, so a behaviour is one call (or two, where  *)
(* the result of the first is the argument of the second).                 *)
(***************************************************************************)
VARIABLES
    pc,      \* "start", "mid" (between two chained calls) or "done"
    input,   \* [fn, args]: the function called and its arguments
    first,   \* what the first of two chained calls returned
    result,  \* what the call returned or raised
    calls    \* the converter functions a request handler called, in order

vars == <<pc, input, first, result, calls>>

Pending == [exc |-> "pending", val |-> <<>>]

(***************************************************************************)
(* Bounds of the inputs.                                                   *)
(***************************************************************************)
\* the longest generated field string given to a validator
MaxLen == 2

\* the longest generated field string of a form
MaxFormLen == 1

\* the length of the string of nines whose value overflows a float
HugeLen == 400

\* out-of-domain ints given to the converters range over -MaxNeg..MaxNeg
\* (minutes, hours) and -60 * MaxNeg..60 * MaxNeg (seconds)
MaxNeg == 2

Alphabet == {"0", "1", ".", "-", " ", "x"}

\* every string over Alphabet of at most n characters
Strings(n) == UNION {[1..k -> Alphabet] : k \in 0..n}

Huge == [i \in 1..HugeLen |-> "9"]

\* field strings at and around the validators' limits, malformed ones, and
\* an absent field
Curated ==
    { NoneStr, Huge, <<"sup2">>,
      <<"5">>, <<"2", "5">>, <<"3", "0">>,
      <<"5", "9">>, <<"6", "0">>, <<"1", "2", "0">>, <<"1", "2", "1">>,
      <<"1", "2">>, <<"1", "3">>, <<"5", "0">>, <<"5", "1">>,
      <<"5", "9", ".", "9">>, <<"1", "2", ".", "5">>, <<"5", "0", ".", "5">>,
      <<"-", "0", ".", "5">>, <<" ", "5", " ">>, <<"\t", "7">>,
      <<"1", "2", ".", "3", ".", "4">>, <<"1", "-", "2">>, <<"-", "-", "1">> }

FieldStrings == Strings(MaxLen) \cup Curated

FormStrings == Strings(MaxFormLen) \cup Curated

\* the other fields of a race time while one field ranges over all strings
CoreStrings == {NoneStr, <<"0">>, <<"5", "9">>, <<" ">>, <<"1", "-", "2">>}

\* triples with at most one field outside CoreStrings
Triples(S) ==
    (S \X CoreStrings \X CoreStrings) \cup (CoreStrings \X S \X CoreStrings)
        \cup (CoreStrings \X CoreStrings \X S)

Call(fn, args) == [fn |-> fn, args |-> args]

InDomainPaces == (0..MaxPaceMinutes) \X (0..59)

SmallInts == -MaxNeg..MaxNeg

OutOfDomainPaces == SmallInts \X ((-60 * MaxNeg)..(60 * MaxNeg))

ConvertInputs ==
    {Call("minutes_per_km_to_km_per_hour", p) : p \in OutOfDomainPaces}
    \cup {Call("km_per_hour_to_minutes_per_km", <<FOfInt(k)>>) : k \in -MaxNeg..MaxSpeed}
    \cup {Call("km_per_hour_to_minutes_per_km", <<FDiv(FOfInt(k), FOfInt(10))>>) :
            k \in -MaxNeg..MaxNeg}
    \cup {Call("calculate_race_times", <<p[1], p[2], FZero>>) : p \in InDomainPaces}
    \cup {Call("calculate_race_times", <<p[1], p[2], FOfInt(k)>>) :
            p \in OutOfDomainPaces, k \in {-MaxNeg, MaxNeg}}
    \cup {Call("race_time_to_pace", <<d, h, m, s>>) :
            d \in DistanceKeys \cup {"", "bogus"},
            h \in SmallInts, m \in SmallInts, s \in SmallInts}

RoundTripInputs == {Call("round_trip", p) : p \in InDomainPaces}

RaceInverseInputs ==
    {Call("race_inverse", <<p[1], p[2], d>>) : p \in InDomainPaces, d \in DistanceKeys}

ValidatePaceInputs ==
    {Call("validate_pace_input", a) : a \in FieldStrings \X FieldStrings}

ValidateSpeedInputs == {Call("validate_speed_input", <<s>>) : s \in FieldStrings}

ValidateRaceTimeInputs ==
    {Call("validate_race_time_input", a) : a \in Triples(FieldStrings)}

\* a form field: absent when v is NoneStr
Field(name, v) == IF v = NoneStr THEN <<>> ELSE name :> v

FormDistances ==
    { NoneStr, <<>>, <<" ">>, <<"b", "o", "g", "u", "s">>,
      <<"f", "i", "v", "e", "k">>, <<"h", "a", "l", "f">>,
      <<" ", "h", "u", "n", "d", "r", "e", "d", "k", " ">> }

PaceForms ==
    {Field("converttokmperh", <<>>) @@ Field("minutes", m) @@ Field("seconds", s)
        @@ Field("race_distance", d) :
        m \in FormStrings, s \in FormStrings, d \in {NoneStr, <<"h", "a", "l", "f">>}}

SpeedForms ==
    {Field("converttominperkm", <<>>) @@ Field("kmperhour", v)
        @@ Field("race_distance", d) : v \in FormStrings, d \in FormDistances}

RaceForms ==
    {Field("convertfromracetime", <<>>) @@ Field("race_distance", d)
        @@ Field("race_hours", a[1]) @@ Field("race_minutes", a[2])
        @@ Field("race_seconds", a[3]) :
        d \in FormDistances, a \in Triples(FormStrings)}

\* forms with no button, and with two (the first in index's order wins)
OtherForms ==
    {Field("minutes", m) : m \in FormStrings}
    \cup {Field("converttokmperh", <<>>) @@ Field("converttominperkm", <<>>)
            @@ Field("minutes", m) @@ Field("kmperhour", m) : m \in FormStrings}

GetRequest == [method |-> "GET", form |-> <<>>]

PostRequest(f) == [method |-> "POST", form |-> f]

\* the calls of index that post one of the given forms
IndexInputs(forms) == {Call("index", <<PostRequest(f)>>) : f \in forms}

InitWith(inputs) ==
    /\ pc = "start"
    /\ input \in inputs
    /\ first = Pending
    /\ result = Pending
    /\ calls = <<>>

\* a call of fn returns r
Returns(fn, r) ==
    /\ pc = "start"
    /\ input.fn = fn
    /\ pc' = "done"
    /\ result' = r
    /\ UNCHANGED <<input, first, calls>>

(***************************************************************************)
(* The converter functions, called directly.                               *)
(***************************************************************************)
CallPaceToSpeed ==
    Returns("minutes_per_km_to_km_per_hour",
            minutes_per_km_to_km_per_hour(input.args[1], input.args[2]))

CallSpeedToPace ==
    Returns("km_per_hour_to_minutes_per_km", km_per_hour_to_minutes_per_km(input.args[1]))

CallRaceTimes ==
    Returns("calculate_race_times",
            calculate_race_times(input.args[1], input.args[2], input.args[3]))

CallRaceTimeToPace ==
    Returns("race_time_to_pace",
            race_time_to_pace(input.args[1], input.args[2], input.args[3], input.args[4]))

ConvertInit == InitWith(ConvertInputs)

ConvertNext == CallPaceToSpeed \/ CallSpeedToPace \/ CallRaceTimes \/ CallRaceTimeToPace

SpecConvert == ConvertInit /\ [][ConvertNext]_vars

(***************************************************************************)
(* A pace converted to a speed and the speed back to a pace.               *)
(***************************************************************************)
PaceToSpeed ==
    /\ pc = "start"
    /\ input.fn = "round_trip"
    /\ pc' = "mid"
    /\ first' = minutes_per_km_to_km_per_hour(input.args[1], input.args[2])
    /\ UNCHANGED <<input, result, calls>>

SpeedToPace ==
    /\ pc = "mid"
    /\ input.fn = "round_trip"
    /\ ~Raised(first)
    /\ pc' = "done"
    /\ result' = km_per_hour_to_minutes_per_km(first.val)
    /\ UNCHANGED <<input, first, calls>>

RoundTripInit == InitWith(RoundTripInputs)

RoundTripNext == PaceToSpeed \/ SpeedToPace

SpecRoundTrip == RoundTripInit /\ [][RoundTripNext]_vars

(***************************************************************************)
(* The race time of a pace over a distance, and the pace of that race time.*)
(***************************************************************************)
RaceTimeOfPace ==
    /\ pc = "start"
    /\ input.fn = "race_inverse"
    /\ pc' = "mid"
    /\ first' = Return(RaceTimeForDistance(input.args[1], input.args[2], input.args[3]))
    /\ UNCHANGED <<input, result, calls>>

PaceOfRaceTime ==
    /\ pc = "mid"
    /\ input.fn = "race_inverse"
    /\ pc' = "done"
    /\ result' = race_time_to_pace(input.args[3], first.val[1], first.val[2], first.val[3])
    /\ UNCHANGED <<input, first, calls>>

RaceInverseInit == InitWith(RaceInverseInputs)

RaceInverseNext == RaceTimeOfPace \/ PaceOfRaceTime

SpecRaceInverse == RaceInverseInit /\ [][RaceInverseNext]_vars

(***************************************************************************)
(* The validators, called on raw strings.                                  *)
(***************************************************************************)
ValidatePace ==
    Returns("validate_pace_input", validate_pace_input(input.args[1], input.args[2]))

ValidateSpeed ==
    Returns("validate_speed_input", validate_speed_input(input.args[1]))

ValidateRaceTime ==
    Returns("validate_race_time_input",
            validate_race_time_input(input.args[1], input.args[2], input.args[3]))

ValidateInit ==
    \/ InitWith(ValidatePaceInputs)
    \/ InitWith(ValidateSpeedInputs)
    \/ InitWith(ValidateRaceTimeInputs)

ValidateNext == ValidatePace \/ ValidateSpeed \/ ValidateRaceTime

SpecValidate == ValidateInit /\ [][ValidateNext]_vars

(***************************************************************************)
(* The index route: one request, one response.                             *)
(***************************************************************************)
Request == input.args[1]

\* index() answers the request, when it is of the kind the guard names
Responds(guard) ==
    /\ pc = "start"
    /\ input.fn = "index"
    /\ guard
    /\ \E h \in {index(Request)} :
          /\ result' = h.out
          /\ calls' = h.calls
    /\ pc' = "done"
    /\ UNCHANGED <<input, first>>

Button(name) == Request.method = "POST" /\ name \in DOMAIN Request.form

Get == Responds(Request.method = "GET")

PostPaceToSpeed == Responds(Button("converttokmperh"))

PostSpeedToPace == Responds(~Button("converttokmperh") /\ Button("converttominperkm"))

PostRaceTime ==
    Responds(/\ ~Button("converttokmperh")
             /\ ~Button("converttominperkm")
             /\ Button("convertfromracetime"))

PostUnknown ==
    Responds(/\ Request.method = "POST"
             /\ ~Button("converttokmperh")
             /\ ~Button("converttominperkm")
             /\ ~Button("convertfromracetime"))

Init ==
    \/ InitWith({Call("index", <<GetRequest>>)})
    \/ InitWith(IndexInputs(PaceForms))
    \/ InitWith(IndexInputs(SpeedForms))
    \/ InitWith(IndexInputs(RaceForms))
    \/ InitWith(IndexInputs(OtherForms))

Next == Get \/ PostPaceToSpeed \/ PostSpeedToPace \/ PostRaceTime \/ PostUnknown

Spec == Init /\ [][Next]_vars

(***************************************************************************)
(* Properties.  Each is stated over the state of one call: pc = "done"     *)
(* with the call's arguments in input and what it returned in result.      *)
(***************************************************************************)
\* the pace in seconds per km of a round trip's or a race inverse's input
PaceSeconds == input.args[1] * 60 + input.args[2]

\* a pace <<m, s>> has s in [0,60) and is total seconds or one second less
WithinOneSecond(pace, total) ==
    /\ pace[2] \in 0..59
    /\ pace[1] >= 0
    /\ pace[1] * 60 + pace[2] \in {total, total - 1}

\* C1: no converter function raises, whatever numbers it is given;
\* km_per_hour_to_minutes_per_km returns (0,0) for a speed <= 0, and
\* race_time_to_pace returns (0,0) for an unknown key or a total time <= 0.
C1_ConvertersNeverRaise ==
    pc = "done" =>
        /\ ~Raised(result)
        /\ (input.fn = "km_per_hour_to_minutes_per_km" /\ FLe(input.args[1], FZero))
              => result.val = <<0, 0>>
        /\ (/\ input.fn = "race_time_to_pace"
            /\ \/ input.args[1] \notin DistanceKeys
               \/ input.args[2] * 3600 + input.args[3] * 60 + input.args[4] <= 0)
              => result.val = <<0, 0>>

\* a call of minutes_per_km_to_km_per_hour whose total minutes are zero
\* though minutes and seconds are not
C1_Witness ==
    /\ pc = "done"
    /\ input.fn = "minutes_per_km_to_km_per_hour"
    /\ input.args = <<1, -60>>
    /\ result = Raise("ZeroDivisionError")

\* the race distance field of a request, stripped
RaceDistanceOf(request) == PyStrip(FormGet(request.form, "race_distance", <<>>))

\* the request is a POST of the race time form
IsRaceTimeRequest(request) ==
    /\ request.method = "POST"
    /\ "converttokmperh" \notin DOMAIN request.form
    /\ "converttominperkm" \notin DOMAIN request.form
    /\ "convertfromracetime" \in DOMAIN request.form

\* what validate_race_time_input says of the request's race time
RaceTimeVerdict(request) ==
    validate_race_time_input(FormGet(request.form, "race_hours", <<"0">>),
                             FormGet(request.form, "race_minutes", <<"0">>),
                             FormGet(request.form, "race_seconds", <<"0">>)).val

\* the pace race_time_to_pace computes from an accepted race time
PaceOfAccepted(key, time_data) ==
    race_time_to_pace(key, time_data.hours, time_data.minutes, time_data.seconds).val

\* C2: a race time request with a distance key of the table and a race time
\* the validator accepts is answered with the computed pace, the speed and the
\* finish times, and no error, also when the pace truncates to (0,0).
C2_AcceptedRaceTimeAnswered ==
    (/\ pc = "done"
     /\ IsRaceTimeRequest(Request)
     /\ StrOf(RaceDistanceOf(Request)) \in DistanceKeys
     /\ RaceTimeVerdict(Request).is_valid)
    =>  /\ ~Raised(result)
        /\ "error" \notin DOMAIN result.val
        /\ <<result.val.minutes, result.val.seconds>>
              = PaceOfAccepted(StrOf(RaceDistanceOf(Request)), RaceTimeVerdict(Request).data)
        /\ \A key \in {"onek", "threek", "fivek", "tenk", "twentyk", "half",
                       "marathon", "hundredk", "o"} : key \in DOMAIN result.val

\* an accepted race time whose pace truncates to (0,0), answered with the
\* error page after all three converters were called
C2_Witness ==
    /\ pc = "done"
    /\ IsRaceTimeRequest(Request)
    /\ StrOf(RaceDistanceOf(Request)) = "hundredk"
    /\ RaceTimeVerdict(Request).is_valid
    /\ PaceOfAccepted("hundredk", RaceTimeVerdict(Request).data) = <<0, 0>>
    /\ calls = <<"race_time_to_pace", "minutes_per_km_to_km_per_hour",
                 "calculate_race_times">>
    /\ "error" \in DOMAIN result.val
    /\ result.val.error = "An unexpected error occurred"

\* C3: for minutes in [0,120] and seconds in [0,60), the pace converted to a
\* speed and back has seconds in [0,60) and the same total seconds or one
\* less; (0,0) gives speed 0, and speed 0 gives (0,0).
C3_RoundTrip ==
    /\ pc # "start" => ~Raised(first)
    /\ pc = "done" =>
          /\ ~Raised(result)
          /\ WithinOneSecond(result.val, PaceSeconds)
          /\ PaceSeconds = 0 => FIsZero(first.val) /\ result.val = <<0, 0>>

\* a round trip that loses a second: 1:01 comes back as 1:00
C3_Witness ==
    /\ pc = "done"
    /\ input.fn = "round_trip"
    /\ input.args = <<1, 1>>
    /\ result = Return(<<1, 0>>)

\* C4: for a non-zero pace (m,s), m in [0,120], s in [0,60), and a distance
\* key d, the race time over d split into hours, minutes and seconds, given
\* to race_time_to_pace with d, returns (m,s) or one second less.
C4_RaceInverse ==
    (pc = "done" /\ PaceSeconds # 0) =>
        /\ ~Raised(result)
        /\ WithinOneSecond(result.val, PaceSeconds)

\* a pace of 0:02 over the half marathon: 42 seconds, which are 0:01 per km
C4_Witness ==
    /\ pc = "done"
    /\ input.fn = "race_inverse"
    /\ input.args = <<0, 2, "half">>
    /\ first = Return(<<0, 0, 42>>)
    /\ result = Return(<<0, 1>>)

\* C5: each validator returns, whatever strings or absent values it is
\* given, and what it returns is (True, value, "") or (False, None, a
\* non-empty message).
C5_ValidatorsReturn ==
    pc = "done" =>
        /\ ~Raised(result)
        /\ \/ /\ result.val.is_valid
              /\ result.val.data # PyNone
              /\ result.val.error_msg = ""
           \/ /\ ~result.val.is_valid
              /\ result.val.data = PyNone
              /\ result.val.error_msg # ""

\* a field whose value overflows a float, and one that passes the character
\* filter but does not parse, both rejected
C5_Witness ==
    /\ pc = "done"
    /\ input.fn = "validate_pace_input"
    /\ input.args \in {<<Huge, <<"5">>>>, <<<<"5">>, <<".">>>>}
    /\ result = Reject("Invalid input: please enter valid numbers")

\* the integer part of the decimal a field holds, read off its characters:
\* the digits before the ".", with the sign
IntegerPart(field) ==
    LET t    == PyStrip(StrOrZero(field))
        neg  == t # <<>> /\ Head(t) = "-"
        body == IF neg THEN Tail(t) ELSE t
        dot  == DotIndex(body)
        ip   == IF dot = 0 THEN body ELSE SubSeq(body, 1, dot - 1)
    IN  (IF neg THEN -1 ELSE 1) * DigitsToInt(ip)

\* C6: what a validator accepts is inside the bounds: a pace has minutes in
\* [0,120], seconds in [0,60) and is not (0,0); a speed is in (0,50]; a race
\* time has hours in [0,12], minutes and seconds in [0,60) and is not all
\* zero; and every integer is the field's decimal truncated toward zero.
C6_AcceptedWithinBounds ==
    (pc = "done" /\ ~Raised(result) /\ result.val.is_valid) =>
        CASE input.fn = "validate_pace_input" ->
                /\ result.val.data.minutes \in 0..MaxPaceMinutes
                /\ result.val.data.seconds \in 0..59
                /\ result.val.data # [minutes |-> 0, seconds |-> 0]
                /\ result.val.data.minutes = IntegerPart(input.args[1])
                /\ result.val.data.seconds = IntegerPart(input.args[2])
          [] input.fn = "validate_speed_input" ->
                /\ FLt(FZero, result.val.data)
                /\ FLe(result.val.data, FOfInt(MaxSpeed))
          [] input.fn = "validate_race_time_input" ->
                /\ result.val.data.hours \in 0..MaxRaceHours
                /\ result.val.data.minutes \in 0..59
                /\ result.val.data.seconds \in 0..59
                /\ result.val.data # [hours |-> 0, minutes |-> 0, seconds |-> 0]
                /\ result.val.data.hours = IntegerPart(input.args[1])
                /\ result.val.data.minutes = IntegerPart(input.args[2])
                /\ result.val.data.seconds = IntegerPart(input.args[3])

\* 12.5 minutes and 59.9 seconds accepted as 12 and 59
C6_Witness ==
    /\ pc = "done"
    /\ input.fn = "validate_pace_input"
    /\ input.args = << <<"1", "2", ".", "5">>, <<"5", "9", ".", "9">> >>
    /\ result = Accept([minutes |-> 12, seconds |-> 59])

\* the field is absent, empty, or empty once stripped
Blank(field) == field = NoneStr \/ PyStrip(field) = <<>>

\* the arguments with "0" in the place of every blank field
BlanksAsZero(args) == [i \in DOMAIN args |-> IF Blank(args[i]) THEN <<"0">> ELSE args[i]]

\* the validator fn applied to args
Validate(fn, args) ==
    CASE fn = "validate_pace_input" -> validate_pace_input(args[1], args[2])
      [] fn = "validate_speed_input" -> validate_speed_input(args[1])
      [] fn = "validate_race_time_input" ->
            validate_race_time_input(args[1], args[2], args[3])

\* C7: a field that is absent, empty, or empty once its whitespace is
\* stripped counts as "0": the validator answers as it does with "0" in its
\* place.
C7_BlankIsZero ==
    pc = "done" => result = Validate(input.fn, BlanksAsZero(input.args))

\* a race time with 59 seconds and hours of one space, rejected
C7_Witness ==
    /\ pc = "done"
    /\ input.fn = "validate_race_time_input"
    /\ input.args = << <<" ">>, <<"0">>, <<"5", "9">> >>
    /\ result = Reject("Invalid input: please enter valid numbers")

\* the field, stripped, has a character that is no digit, "." or "-", or two
\* "." or two "-", or a "-" after its first character
Malformed(field) ==
    LET t == PyStrip(StrOrZero(field))
    IN  \/ \E i \in 1..Len(t) : t[i] \notin AsciiDigits \cup {".", "-"}
        \/ PyCount(t, ".") > 1
        \/ PyCount(t, "-") > 1
        \/ \E i \in 2..Len(t) : t[i] = "-"

DistanceIn400ths(key) ==
    CASE key = "onek"     -> 400
      [] key = "threek"   -> 1200
      [] key = "fivek"    -> 2000
      [] key = "tenk"     -> 4000
      [] key = "twentyk"  -> 8000
      [] key = "half"     -> 8439
      [] key = "marathon" -> 16878
      [] key = "hundredk" -> 40000

\* total whole seconds as "{h}h{m}min{s}s"
Clock(total) ==
    ToString(total \div 3600) \o "h" \o ToString((total % 3600) \div 60) \o "min"
        \o ToString(total % 60) \o "s"

\* C9: for a pace with minutes >= 0 and seconds in [0,60),
\* calculate_race_times gives each distance key the time "{h}h{m}min{s}s" of
\* the pace's seconds times the distance, truncated to whole seconds, with m
\* and s in [0,60); (0,0) gives "0h0min0s" throughout and (5,0) gives
\* "0h25min0s" for fivek.
C9_RaceTimes ==
    (/\ pc = "done"
     /\ input.fn = "calculate_race_times"
     /\ input.args[1] >= 0
     /\ input.args[2] \in 0..59)
    =>  /\ ~Raised(result)
        /\ \A key \in DistanceKeys :
              /\ key \in DOMAIN result.val
              /\ result.val[key] = Clock((PaceSeconds * DistanceIn400ths(key)) \div 400)
        /\ PaceSeconds = 0 => \A key \in DistanceKeys : result.val[key] = "0h0min0s"
        /\ PaceSeconds = 300 => result.val["fivek"] = "0h25min0s"

\* 4:30 per km over the half marathon: 5696.325 seconds
C9_Witness ==
    /\ pc = "done"
    /\ input.fn = "calculate_race_times"
    /\ input.args = <<4, 30, FZero>>
    /\ ~Raised(result)
    /\ result.val["half"] = "1h34min56s"

\* what the validation of a POST says: the verdict of the validator of the
\* form's button, after the distance key for a race time
Verdict(request) ==
    IF "converttokmperh" \in DOMAIN request.form
    THEN validate_pace_input(FormGet(request.form, "minutes", <<"0">>),
                             FormGet(request.form, "seconds", <<"0">>)).val
    ELSE IF "converttominperkm" \in DOMAIN request.form
    THEN validate_speed_input(FormGet(request.form, "kmperhour", <<"0">>)).val
    ELSE IF StrOf(RaceDistanceOf(request)) \notin DistanceKeys
    THEN Reject("Please select a valid race distance").val
    ELSE RaceTimeVerdict(request)

\* the request is a POST of one of the three forms
IsConversion(request) ==
    /\ request.method = "POST"
    /\ \E button \in {"converttokmperh", "converttominperkm", "convertfromracetime"} :
          button \in DOMAIN request.form

\* C10: a request that validation rejects (for a race time, the distance key
\* first) reaches no converter function, and its response carries the
\* rejection's non-empty message and zero in every output field.
C10_RejectedCallsNothing ==
    (pc = "done" /\ IsConversion(Request) /\ ~Verdict(Request).is_valid) =>
        /\ calls = <<>>
        /\ ~Raised(result)
        /\ "error" \in DOMAIN result.val
        /\ result.val.error = Verdict(Request).error_msg
        /\ result.val.error # ""
        /\ \A field \in DOMAIN ZeroOutputs : result.val[field] = 0

\* a race time request with an unknown distance key and a malformed time
C10_Witness ==
    /\ pc = "done"
    /\ IsRaceTimeRequest(Request)
    /\ RaceDistanceOf(Request) = <<"b", "o", "g", "u", "s">>
    /\ ~RaceTimeVerdict(Request).is_valid
    /\ calls = <<>>
    /\ "error" \in DOMAIN result.val
    /\ result.val.error = "Please select a valid race distance"

=============================================================================
